---- MODULE Spec2Model ----
(***************************************************************************)
(* Model of src/cashdetection.py: the multi-camera polling loop of main(), *)
(* detect_cash() and send_email().                                         *)
(*                                                                         *)
(* Time is counted in whole clock units; confidences are counted in steps  *)
(* of 0.25, so that the default threshold 0.25 is 1.                       *)
(***************************************************************************)
EXTENDS Integers, Sequences, FiniteSets, TLC

\* ------------------------------------------------------------------ bounds
\* Clock readings range over 0..MaxTime.
MaxTime == 2
\* The model returns at most MaxBoxes boxes for one frame.
MaxBoxes == 1

\* ------------------------------------------------------------ configuration
\* CAMERAS (a dict, iterated in insertion order).
CAMERAS == <<"waterway", "mivida">>

CameraNames == {CAMERAS[i] : i \in 1..Len(CAMERAS)}

\* The values COOLDOWN = int(os.getenv("COOLDOWN", 300)) is configured with:
\* int() accepts any integer, negative ones too.
CooldownValues == {-2, 0, 1}

\* CONF_THRES = float(os.getenv("CONF_THRES", 0.25)), in steps of 0.25.
CONF_THRES == 1

\* ------------------------------------------------------------- environment
Times == 0..MaxTime

\* The images a camera can deliver.
Frames == {"f1", "f2"}

\* frame is None
None == [img |-> "None", drawn |-> {}]

\* os.path.exists(out_file) is false
NoFile == [img |-> "NoFile", drawn |-> {}]

\* model.names: the label vocabulary of the loaded model.
ModelNames == <<"Cash", "coin", "CASH">>

\* Confidences a box can carry, in steps of 0.25: below the default threshold
\* and exactly on it.
Confs == {0, 1}

\* One box of r.boxes: class index, confidence, position.
Boxes == [cls : 1..Len(ModelNames), conf : Confs, xyxy : {"b1"}]

\* r.boxes of one result: at most MaxBoxes boxes.
BoxSeqs == UNION {[1..n -> Boxes] : n \in 0..MaxBoxes}

\* What model(frame, conf=conf_thres) returns: a list with one result for the
\* one image, or an empty list.
ModelOutputs == {<<>>} \cup {<<bs>> : bs \in BoxSeqs}

\* str.lower() on the labels of the vocabulary.
Lower(s) ==
    CASE s = "Cash" -> "cash"
      [] s = "CASH" -> "cash"
      [] s = "cash" -> "cash"
      [] s = "coin" -> "coin"
      [] OTHER -> s

VARIABLES
    pc,                  \* the line main() is at
    exit_code,           \* <<>> while the process runs, else <<code>>
    failure,             \* the step whose exception left main(), or "none"
    model,               \* "unloaded" | "loaded" | "failed"
    COOLDOWN,            \* the configured cooldown
    idx,                 \* position of `name` in CAMERAS (0: before the for)
    ret,                 \* ret of cap.read()
    frame,               \* frame of cap.read(); detect_cash draws on it
    results,             \* what model(frame, conf=conf_thres) returned (line 65)
    cash_detected,       \* first result of detect_cash
    wrote,               \* what cv2.imwrite returned (the code discards it)
    now,                 \* the time.time() of line 113
    send_result,         \* "none" | "sent" | "error": how send_email ended
    attachment,          \* the image of the message handed to SMTP
    trace,               \* the calls made so far in this iteration of the for
    last_detection_time, \* camera -> last recorded time
    snapshot,            \* camera -> contents of detection_<camera>.jpg
    watched,             \* the camera whose history is kept (any one of them)
    prev_alert,          \* <<now>> of the watched camera's previous cycle if it alerted
    ever_triggered,      \* the watched camera had cash_detected in an earlier cycle
    last_attempt         \* <<now>> of the watched camera's latest earlier cycle that alerted

vars == <<pc, exit_code, failure, model, COOLDOWN, idx, ret, frame, results,
          cash_detected, wrote, now, send_result, attachment, trace,
          last_detection_time, snapshot, watched, prev_alert, ever_triggered,
          last_attempt>>

locals == <<ret, frame, results, cash_detected, wrote, now, send_result, attachment,
            trace>>

history == <<watched, prev_alert, ever_triggered, last_attempt>>

name == CAMERAS[idx]

\* ------------------------------------------------------------ detect_cash
\* line 72 without the .lower() of line 70
Qualifies_NoLower(box, conf_thres) ==
    ModelNames[box.cls] = "cash" /\ box.conf >= conf_thres

\* lines 70-72
Qualifies(box, conf_thres) ==
    Lower(ModelNames[box.cls]) = "cash" /\ box.conf >= conf_thres

\* lines 74-80 drawing on a fresh copy of the frame: earlier boxes are lost
Draw_OnCopy(f, box) ==
    [f EXCEPT !.drawn = {[xyxy |-> box.xyxy, text |-> <<"Cash", box.conf>>]}]

\* lines 74-80: the rectangle and the text f"Cash {conf:.2f}" put on the frame
Draw(f, box) ==
    [f EXCEPT !.drawn = @ \cup {[xyxy |-> box.xyxy, text |-> <<"Cash", box.conf>>]}]

\* lines 69-81: for box in r.boxes
RECURSIVE ForBoxes(_, _, _)
ForBoxes(boxes, acc, conf_thres) ==
    IF boxes = <<>> THEN acc
    ELSE LET box == Head(boxes)
             nxt == IF Qualifies(box, conf_thres)
                    THEN [cash_detected |-> TRUE, frame |-> Draw(acc.frame, box)]
                    ELSE acc
         IN ForBoxes(Tail(boxes), nxt, conf_thres)

\* lines 68-81: for r in results
RECURSIVE ForResults(_, _, _)
ForResults(res, acc, conf_thres) ==
    IF res = <<>> THEN acc
    ELSE ForResults(Tail(res), ForBoxes(Head(res), acc, conf_thres), conf_thres)

\* lines 66-82, given what model(frame, conf=conf_thres) returned at line 65
detect_cash(res, f, conf_thres) ==
    ForResults(res, [cash_detected |-> FALSE, frame |-> f], conf_thres)

\* ------------------------------------------------------------------- main
\* An exception leaves main(): the interpreter prints it and exits with 1.
Uncaught(step) ==
    /\ pc' = "done"
    /\ exit_code' = <<1>>
    /\ failure' = step

InitMain ==
    /\ pc = "load"
    /\ exit_code = <<>>
    /\ failure = "none"
    /\ model = "unloaded"
    /\ COOLDOWN \in CooldownValues
    /\ idx = 0
    /\ ret = FALSE
    /\ frame = None
    /\ results = <<>>
    /\ cash_detected = FALSE
    /\ wrote = FALSE
    /\ now = 0
    /\ send_result = "none"
    /\ attachment = NoFile
    /\ trace = <<>>
    /\ last_detection_time = [c \in {} |-> 0]
    /\ snapshot = [c \in CameraNames |-> NoFile]
    /\ prev_alert = <<>>
    /\ ever_triggered = FALSE
    /\ last_attempt = <<>>

\* the history of one camera, any of them, is kept
Init == InitMain /\ watched \in CameraNames

\* lines 93-95 without the return of line 95
LoadFailed_NoReturn ==
    /\ model' = "failed"
    /\ pc' = "for"
    /\ last_detection_time' = [c \in CameraNames |-> 0]
    /\ UNCHANGED exit_code

\* lines 93-95: YOLO(MODEL_PATH) raised
LoadFailed ==
    /\ model' = "failed"
    /\ pc' = "done"
    /\ exit_code' = <<0>>
    /\ UNCHANGED last_detection_time

\* lines 91-92, 97
LoadOk ==
    /\ model' = "loaded"
    /\ pc' = "for"
    /\ last_detection_time' = [c \in CameraNames |-> 0]
    /\ UNCHANGED exit_code

\* lines 90-97
LoadModel ==
    /\ pc = "load"
    /\ (LoadOk \/ LoadFailed)
    /\ UNCHANGED <<failure, COOLDOWN, idx, locals, snapshot, history>>

\* What the finished iteration leaves for the next cycle of the same camera.
Called(step) == step \in {trace[i] : i \in 1..Len(trace)}

Remember ==
    /\ UNCHANGED watched
    /\ IF idx = 0 \/ name # watched
       THEN UNCHANGED <<prev_alert, ever_triggered, last_attempt>>
       ELSE /\ prev_alert' = IF Called("send_email") THEN <<now>> ELSE <<>>
            /\ last_attempt' = IF Called("send_email") THEN <<now>> ELSE last_attempt
            /\ ever_triggered' = (ever_triggered \/ cash_detected)

ResetLocals ==
    /\ ret' = FALSE
    /\ frame' = None
    /\ results' = <<>>
    /\ cash_detected' = FALSE
    /\ wrote' = FALSE
    /\ now' = 0
    /\ send_result' = "none"
    /\ attachment' = NoFile
    /\ trace' = <<>>

\* line 100: the next camera of the cycle, or the end of the for
ForNext ==
    /\ pc = "for"
    /\ Remember
    /\ ResetLocals
    /\ IF idx < Len(CAMERAS)
       THEN idx' = idx + 1 /\ pc' = "capture"
       ELSE idx' = idx /\ pc' = "sleep"
    /\ UNCHANGED <<exit_code, failure, model, COOLDOWN, last_detection_time,
                   snapshot>>

\* line 105 with `and` for `or`
NoFrame_And(r, f) == ~r /\ f = None

\* line 105
NoFrame(r, f) == ~r \/ f = None

\* lines 105-107 with break for continue: the for loop is left
AfterRead_Break(r, f) ==
    IF NoFrame(r, f) THEN pc' = "sleep" ELSE pc' = "detect"

\* lines 105-107: continue, or go on to line 109
AfterRead(r, f) ==
    IF NoFrame(r, f) THEN pc' = "for" ELSE pc' = "detect"

\* lines 101-103 returned r, f
CaptureReturns(r, f) ==
    /\ ret' = r
    /\ frame' = f
    /\ AfterRead(r, f)
    /\ UNCHANGED <<exit_code, failure>>

\* lines 101-103 raised (cv2.VideoCapture(url) with url None, for one)
CaptureRaises ==
    /\ Uncaught("capture")
    /\ UNCHANGED <<ret, frame>>

\* lines 101-107
Capture ==
    /\ pc = "capture"
    /\ trace' = Append(trace, "capture")
    /\ \/ \E r \in BOOLEAN, f \in [img : Frames, drawn : {{}}] \cup {None} :
              CaptureReturns(r, f)
       \/ CaptureRaises
    /\ UNCHANGED <<model, COOLDOWN, idx, results, cash_detected, wrote, now,
                   send_result, attachment, last_detection_time, snapshot, history>>

\* line 65 returned res
InferReturns(res) ==
    /\ results' = res
    /\ pc' = "boxes"
    /\ UNCHANGED <<exit_code, failure>>

\* line 65 raised
InferRaises ==
    /\ Uncaught("detect")
    /\ UNCHANGED results

\* line 109 calls detect_cash; line 65
Infer ==
    /\ pc = "detect"
    /\ trace' = Append(trace, "detect")
    /\ \/ \E res \in ModelOutputs : InferReturns(res)
       \/ InferRaises
    /\ UNCHANGED <<model, COOLDOWN, idx, ret, frame, cash_detected, wrote, now,
                   send_result, attachment, last_detection_time, snapshot, history>>

\* lines 66-82, and the assignment of line 109; results goes out of scope
Detect ==
    /\ pc = "boxes"
    /\ LET out == detect_cash(results, frame, CONF_THRES)
       IN /\ cash_detected' = out.cash_detected
          /\ frame' = out.frame
    /\ results' = <<>>
    /\ pc' = "imwrite"
    /\ UNCHANGED <<exit_code, failure, model, COOLDOWN, idx, ret, wrote, now,
                   send_result, attachment, trace, last_detection_time, snapshot,
                   history>>

\* line 111 run only under `if cash_detected:`
ImwriteReturns_OnlyIfDetected(ok) ==
    /\ trace' = IF cash_detected THEN Append(trace, "imwrite") ELSE trace
    /\ wrote' = (cash_detected /\ ok)
    /\ snapshot' = IF cash_detected /\ ok THEN [snapshot EXCEPT ![name] = frame]
                   ELSE snapshot
    /\ pc' = "decide"
    /\ UNCHANGED <<exit_code, failure>>

\* line 111 returned ok: True and the file holds the frame, False and it is
\* left as it was
ImwriteReturns(ok) ==
    /\ trace' = Append(trace, "imwrite")
    /\ wrote' = ok
    /\ snapshot' = IF ok THEN [snapshot EXCEPT ![name] = frame] ELSE snapshot
    /\ pc' = "decide"
    /\ UNCHANGED <<exit_code, failure>>

\* line 111 raised
ImwriteRaises ==
    /\ trace' = Append(trace, "imwrite")
    /\ Uncaught("imwrite")
    /\ UNCHANGED <<wrote, snapshot>>

\* lines 110-111
Imwrite ==
    /\ pc = "imwrite"
    /\ \/ \E ok \in BOOLEAN : ImwriteReturns(ok)
       \/ ImwriteRaises
    /\ UNCHANGED <<model, COOLDOWN, idx, ret, frame, results, cash_detected, now,
                   send_result, attachment, last_detection_time, history>>

\* line 113 with abs() around the difference
CooldownOver_Abs(c, t) ==
    LET d == t - last_detection_time[c]
    IN (IF d < 0 THEN -d ELSE d) > COOLDOWN

\* line 113, right operand, with t the value of time.time()
\* line 113 with >= for >
CooldownOver_Geq(c, t) == t - last_detection_time[c] >= COOLDOWN

\* line 113 without the cooldown comparison: every detection alerts
CooldownOver_Always(c, t) == TRUE

CooldownOver(c, t) == t - last_detection_time[c] > COOLDOWN

\* line 113: `and` reads the clock only when cash_detected
Decide ==
    /\ pc = "decide"
    /\ IF cash_detected
       THEN \E t \in Times :
               /\ now' = t
               /\ pc' = IF CooldownOver(name, t) THEN "send_email" ELSE "for"
       ELSE /\ pc' = "for"
            /\ UNCHANGED now
    /\ UNCHANGED <<exit_code, failure, model, COOLDOWN, idx, ret, frame, results,
                   cash_detected, wrote, send_result, attachment, trace,
                   last_detection_time, snapshot, history>>

\* send_email without the try/except of lines 36 and 58-59
SendEmailError_Raises ==
    /\ send_result' = "error"
    /\ Uncaught("send_email")
    /\ UNCHANGED attachment

\* lines 58-59: an exception inside the try of send_email is logged
SendEmailError ==
    /\ send_result' = "error"
    /\ pc' = "record"
    /\ UNCHANGED <<attachment, exit_code, failure>>

\* lines 37-57 with one fixed image path for all cameras
SendEmailSent_FixedPath(image_path) ==
    /\ send_result' = "sent"
    /\ attachment' = snapshot[CAMERAS[1]]
    /\ pc' = "record"
    /\ UNCHANGED <<exit_code, failure>>

\* lines 37-57 without the os.path.exists test of line 43: reading a missing
\* file fails inside the try
SendEmailSent_NoExistsCheck(image_path) ==
    /\ IF snapshot[image_path] = NoFile
       THEN send_result' = "error" /\ UNCHANGED attachment
       ELSE send_result' = "sent" /\ attachment' = snapshot[image_path]
    /\ pc' = "record"
    /\ UNCHANGED <<exit_code, failure>>

\* lines 37-57 ran through; line 43: the image is attached if the file exists
SendEmailSent(image_path) ==
    /\ send_result' = "sent"
    /\ attachment' = snapshot[image_path]
    /\ pc' = "record"
    /\ UNCHANGED <<exit_code, failure>>

\* lines 114-118 and 35-59
SendEmail ==
    /\ pc = "send_email"
    /\ trace' = Append(trace, "send_email")
    /\ (SendEmailSent(name) \/ SendEmailError)
    /\ UNCHANGED <<model, COOLDOWN, idx, ret, frame, results, cash_detected, wrote,
                   now, last_detection_time, snapshot, history>>

\* line 119 with one timestamp shared by all cameras
RecordAlert_Global(c, t) ==
    last_detection_time' = [k \in DOMAIN last_detection_time |-> t]

\* line 119 with the camera's url for its name as the key
RecordAlert_ByUrl(c, t) ==
    last_detection_time' =
        [k \in DOMAIN last_detection_time \cup {"url"} |->
            IF k = "url" THEN t ELSE last_detection_time[k]]

\* line 119, with t the value of time.time()
RecordAlert(c, t) ==
    last_detection_time' = [last_detection_time EXCEPT ![c] = t]

\* line 119
Record ==
    /\ pc = "record"
    /\ trace' = Append(trace, "record")
    /\ \E t \in Times :
          /\ RecordAlert(name, t)
    /\ pc' = "for"
    /\ UNCHANGED <<exit_code, failure, model, COOLDOWN, idx, ret, frame, results,
                   cash_detected, wrote, now, send_result, attachment, snapshot, history>>

\* line 121, then line 99 again
Sleep ==
    /\ pc = "sleep"
    /\ pc' = "for"
    /\ idx' = 0
    /\ UNCHANGED <<exit_code, failure, model, COOLDOWN, locals,
                   last_detection_time, snapshot, history>>

Next ==
    \/ LoadModel
    \/ ForNext
    \/ Capture
    \/ Infer
    \/ Detect
    \/ Imwrite
    \/ Decide
    \/ SendEmail
    \/ Record
    \/ Sleep

Spec == Init /\ [][Next]_vars

\* every external call returns: no statement of main raises
Returning == failure' = "none" /\ model' # "failed"

NextReturning ==
    \/ LoadModel /\ Returning
    \/ ForNext /\ Returning
    \/ Capture /\ Returning
    \/ Infer /\ Returning
    \/ Detect /\ Returning
    \/ Imwrite /\ Returning
    \/ Decide /\ Returning
    \/ SendEmail /\ Returning
    \/ Record /\ Returning
    \/ Sleep /\ Returning

\* the same program with no camera's history kept
InitReturning == InitMain /\ watched = "none"

\* main is the only thread and runs on as long as its calls return
SpecReturning ==
    InitReturning /\ [][NextReturning]_vars /\ WF_vars(NextReturning)

\* ------------------------------------------------ detect_cash on its own
\* What detect_cash is applied to when it is checked as a function: the model's
\* answers for one frame with up to MaxBoxes + 1 boxes.
\* boxes at two places of the image, so that two drawn boxes differ
DetectBoxes == [cls : 1..Len(ModelNames), conf : Confs, xyxy : {"b1", "b2"}]

DetectInputs ==
    {<<>>} \cup
    {<<bs>> : bs \in UNION {[1..n -> DetectBoxes] : n \in 0..(MaxBoxes + 1)}}

\* main() at line 66 of detect_cash, for the first camera, with any frame and
\* any answer of the model.
InitDetect ==
    /\ pc = "boxes"
    /\ exit_code = <<>>
    /\ failure = "none"
    /\ model = "loaded"
    /\ COOLDOWN \in CooldownValues
    /\ idx = 1
    /\ ret = TRUE
    /\ frame \in [img : Frames, drawn : {{}}]
    /\ results \in DetectInputs
    /\ cash_detected = FALSE
    /\ wrote = FALSE
    /\ now = 0
    /\ send_result = "none"
    /\ attachment = NoFile
    /\ trace = <<"capture", "detect">>
    /\ last_detection_time = [c \in CameraNames |-> 0]
    /\ snapshot = [c \in CameraNames |-> NoFile]
    /\ watched \in CameraNames
    /\ prev_alert = <<>>
    /\ ever_triggered = FALSE
    /\ last_attempt = <<>>

\* lines 66-119: the rest of the iteration
NextDetect ==
    \/ Detect
    \/ Imwrite
    \/ Decide
    \/ SendEmail
    \/ Record

SpecDetect == InitDetect /\ [][NextDetect]_vars

\* ------------------------------------------------------------------ claims
\* The iteration of the for loop for camera `name` has ended (line 107, 113 or
\* 119 was the last one) and the next has not begun.
IterationEnded == pc = "for" /\ idx > 0

\* A frame was obtained in this iteration.
GotFrame == ret /\ frame # None

\* send_email was called in this iteration.
Attempted == Called("send_email") \/ pc = "send_email"

\* C1: original claim. For two consecutive cycles of a camera that both obtain
\* a frame and are triggered, the first of which sends a notification, with dt
\* the clock time between the two cycles (between their readings at line 113):
\* dt <= COOLDOWN means the second cycle sends nothing, dt > COOLDOWN means it
\* sends a second notification. Stated for the runs in which COOLDOWN >= 0 and
\* the clock does not run backward, which are among those the claim covers.
C1_CooldownTwoCycles ==
    (/\ IterationEnded /\ name = watched /\ prev_alert # <<>> /\ GotFrame /\ cash_detected
     /\ COOLDOWN >= 0
     /\ prev_alert[1] <= now
     /\ (~Attempted => last_detection_time[name] \in prev_alert[1]..now))
        => LET dt == now - prev_alert[1]
           IN /\ (dt <= COOLDOWN => ~Attempted)
              /\ (dt > COOLDOWN => Attempted)

\* C2: original claim. No failure of a step for one camera ends the loop: once
\* the model is loaded the process never terminates.
C2_FailureIsolation == model = "loaded" => pc # "done"

\* C3: when the read gives no frame (ret false or frame None), that step makes
\* no detection call, writes no snapshot, sends nothing, leaves
\* last_detection_time and everything the other cameras depend on as it was,
\* does not stop the process, and goes on to the next camera.
C3_NoFrameSkip ==
    [][(pc = "capture" /\ failure' = "none" /\ (ret' = FALSE \/ frame' = None))
         => /\ pc' = "for"
            /\ exit_code' = <<>>
            /\ trace' = <<"capture">>
            /\ UNCHANGED <<last_detection_time, snapshot, COOLDOWN, idx, model,
                           cash_detected, send_result, attachment, wrote, now,
                           history>>]_vars

C3_Witness ==
    /\ IterationEnded
    /\ name = CAMERAS[1]
    /\ ~GotFrame
    /\ trace = <<"capture">>
    /\ last_detection_time[name] > 0

\* C4: however send_email fails inside, it returns to main without raising,
\* line 119 then records a time for the camera and ends the iteration without a
\* second send; a later send for the camera happens only once the cooldown has
\* elapsed since the recorded time.
C4_SinkFailure ==
    [][/\ (pc = "send_email" => (pc' = "record" /\ exit_code' = <<>>))
       /\ (pc = "record" /\ send_result = "error"
             => /\ pc' = "for"
                /\ trace' = Append(trace, "record")
                /\ last_detection_time'[name] \in Times
                /\ \A c \in CameraNames \ {name} :
                      last_detection_time'[c] = last_detection_time[c])
       /\ (pc' = "send_email" /\ pc # "send_email"
             => now' - last_detection_time[name] > COOLDOWN)]_vars

C4_Witness ==
    /\ IterationEnded
    /\ send_result = "error"
    /\ trace = <<"capture", "detect", "imwrite", "send_email", "record">>
    /\ exit_code = <<>>
    /\ last_detection_time[name] > 0

\* C5: original claim. The first cycle since startup in which a camera obtains
\* a frame and is triggered attempts a notification, whatever the clock reads.
C5_FirstAlert ==
    (IterationEnded /\ name = watched /\ ~ever_triggered /\ GotFrame /\ cash_detected)
        => Attempted

\* The spellings of the target label that compare equal to "cash" when case is
\* ignored.
CashSpellings == {"cash", "Cash", "cAsh", "caSh", "casH", "CAsh", "CaSh", "CasH",
                  "cASh", "cAsH", "caSH", "CASh", "CAsH", "CaSH", "cASH", "CASH"}

\* The detections of `res` that carry the label "cash" (case ignored) with a
\* confidence of at least the threshold.
QualifyingIn(res, conf_thres) ==
    {<<i, j>> \in (1..Len(res)) \X (1..(MaxBoxes + 2)) :
        /\ j <= Len(res[i])
        /\ ModelNames[res[i][j].cls] \in CashSpellings
        /\ res[i][j].conf >= conf_thres}

\* C6: detect_cash returns cash_detected = TRUE exactly when the detections the
\* model returned contain at least one with label "cash" (case ignored) and
\* confidence >= the threshold.
C6_TriggerPredicate ==
    [][pc = "boxes" => (cash_detected' <=> QualifyingIn(results, CONF_THRES) # {})]_vars

C6_Witness ==
    /\ pc = "imwrite"
    /\ cash_detected
    /\ frame.drawn # {}

\* C7: original claim. Whatever COOLDOWN is configured, no notification is
\* attempted when now - last_detection_time[camera] is negative.
C7_ClockBackwardOriginal ==
    (Attempted /\ ~Called("record")) => now - last_detection_time[name] >= 0

\* C7 as amended: with COOLDOWN >= 0, no notification is attempted when
\* now - last_detection_time[camera] is negative.
C7_ClockBackward ==
    (COOLDOWN >= 0 /\ Attempted /\ ~Called("record"))
        => now - last_detection_time[name] >= 0

C7_Witness ==
    /\ IterationEnded
    /\ COOLDOWN >= 0
    /\ GotFrame
    /\ cash_detected
    /\ now - last_detection_time[name] < 0
    /\ ~Attempted

\* C8: when the model fails to load, the process stops before the loop: no
\* camera is captured, no snapshot is written, nothing is sent and
\* last_detection_time is never created.
C8_StartupFatal ==
    model # "loaded"
        => /\ pc \in {"load", "done"}
           /\ (model = "failed" => pc = "done")
           /\ idx = 0
           /\ trace = <<>>
           /\ send_result = "none"
           /\ snapshot = [c \in CameraNames |-> NoFile]
           /\ DOMAIN last_detection_time = {}

C8_Witness == model = "failed" /\ pc = "done"

\* C9: original claim. When the model fails to load, the process terminates
\* with a non-zero exit code.
C9_NonZeroExit ==
    (model = "failed" /\ pc = "done") => (exit_code # <<>> /\ exit_code[1] # 0)

\* C10: in every cycle in which a frame was obtained and detection and the
\* write returned, line 111 was run with that cycle's frame, triggered or not,
\* in cooldown or not; when the write succeeded the file holds that frame.
C10_SnapshotEveryCycle ==
    (pc \in {"decide", "send_email", "record"} \/ (IterationEnded /\ GotFrame))
        => /\ Called("imwrite")
           /\ (wrote => snapshot[name] = frame)

C10_Witness ==
    /\ IterationEnded
    /\ GotFrame
    /\ cash_detected
    /\ ~Attempted
    /\ wrote
    /\ snapshot[name] = frame
    /\ frame.drawn # {}

\* C11: from the first cycle on, last_detection_time has exactly one entry per
\* configured camera, each a time; the entries exist before the first camera
\* is captured and none is added or deleted afterwards.
C11_CooldownDomain ==
    (model = "loaded" /\ pc # "load")
        => /\ DOMAIN last_detection_time = CameraNames
           /\ \A c \in CameraNames : last_detection_time[c] \in Times

C11_Witness ==
    /\ IterationEnded
    /\ Called("record")
    /\ name = CAMERAS[2]
    /\ DOMAIN last_detection_time = CameraNames
    /\ \A c \in CameraNames : last_detection_time[c] > 0

\* C12: when the clock readings did not go backward (the earlier attempt's
\* reading at line 113, the reading stored after it at line 119, the reading of
\* this cycle), two attempts for the same camera lie more than COOLDOWN apart.
C12_MinimumSpacing ==
    (/\ pc = "send_email" /\ name = watched /\ last_attempt # <<>>
     /\ last_attempt[1] <= last_detection_time[name]
     /\ last_detection_time[name] <= now)
        => now - last_attempt[1] > COOLDOWN

C12_Witness ==
    /\ pc = "send_email" /\ name = watched /\ last_attempt # <<>>
    /\ prev_alert = <<>>
    /\ COOLDOWN >= 0
    /\ last_attempt[1] <= last_detection_time[name]
    /\ last_detection_time[name] < now

\* C13: when the snapshot file is missing as send_email runs, the send is not
\* aborted for it: the message can still go out, what goes out has no
\* attachment, and main continues with line 119.
C13_MissingSnapshot ==
    /\ (pc = "send_email" /\ snapshot[name] = NoFile)
          => ENABLED (SendEmail /\ send_result' = "sent" /\ attachment' = NoFile)
    /\ (Called("send_email") /\ snapshot[name] = NoFile)
          => /\ pc \in {"record", "for"}
             /\ send_result = "sent" => attachment = NoFile

C13_Witness ==
    /\ pc = "record"
    /\ Called("send_email")
    /\ snapshot[name] = NoFile
    /\ ~wrote
    /\ send_result = "sent"
    /\ attachment = NoFile

\* C14: after the cooldown update of a cycle, last_detection_time of the camera
\* is the reading now that line 113 compared against the cooldown, in cycles
\* whose clock did not go backward and with a cooldown that is not negative.
C14_RecordedIsNow ==
    (/\ IterationEnded /\ Called("record")
     /\ COOLDOWN >= 0 /\ now <= last_detection_time[name])
        => last_detection_time[name] = now

\* C15: in an iteration that got a frame and reached line 113, a notification
\* is attempted if and only if cash was detected and now minus the camera's
\* last_detection_time is strictly greater than COOLDOWN; an iteration makes at
\* most one attempt.
C15_NotificationDecision ==
    /\ (/\ GotFrame /\ Called("imwrite") /\ ~Called("record")
        /\ pc \in {"send_email", "record", "for"})
          => (Attempted <=>
                (cash_detected /\ now - last_detection_time[name] > COOLDOWN))
    /\ Cardinality({i \in DOMAIN trace : trace[i] = "send_email"}) <= 1

C15_Witness ==
    /\ IterationEnded
    /\ GotFrame /\ Called("imwrite")
    /\ cash_detected
    /\ COOLDOWN > 0
    /\ now - last_detection_time[name] = COOLDOWN
    /\ ~Attempted

\* C16: once the loop runs, the last_detection_time entry of a camera changes
\* only in the step at line 119 of an iteration that processes this camera and
\* has attempted a notification for it; every other step (no frame, nothing
\* detected, in cooldown, sleep, another camera's iteration) leaves it as it is.
C16_FrameCondition ==
    [][model = "loaded" =>
          \A c \in CameraNames :
              last_detection_time'[c] # last_detection_time[c]
                  => /\ pc = "record"
                     /\ name = c
                     /\ Called("send_email")]_vars

\* the second camera alerts while the first camera is inside its cooldown
C16_Witness ==
    /\ pc = "record"
    /\ name = CAMERAS[2]
    /\ COOLDOWN > 0
    /\ last_detection_time[CAMERAS[1]] > 0
    /\ now - last_detection_time[CAMERAS[1]] <= COOLDOWN
    /\ last_detection_time[CAMERAS[2]] = 0

\* the order of the calls in one for-body, lines 101-119
StepOrder == <<"capture", "detect", "imwrite", "send_email", "record">>

CycleStep ==
    /\ idx' # idx
          => \/ pc = "for" /\ idx < Len(CAMERAS) /\ idx' = idx + 1 /\ pc' = "capture"
             \/ pc = "sleep" /\ idx' = 0 /\ pc' = "for"
    /\ (pc' = "capture" /\ pc # "capture") => idx' = idx + 1
    /\ pc = "capture" => pc' # "capture"
    /\ (pc' = "sleep" /\ pc # "sleep") => (pc = "for" /\ idx = Len(CAMERAS))
    /\ pc = "sleep" => (pc' = "for" /\ idx' = 0)

\* C18: a cycle visits each configured camera once, in order, and then sleeps
\* once, also after cameras without a frame; when every external call returns
\* the loop never ends, a camera without a frame is captured again, and every
\* camera is captured infinitely often.
C18_CycleAndRetry ==
    /\ [][CycleStep]_vars
    /\ [](pc # "done")
    /\ \A c \in CameraNames : []<>(pc = "capture" /\ name = c)

\* the last camera, which had a frame in an earlier cycle, was captured again
\* and has none in this cycle; the sleep is next
C18_Witness ==
    /\ IterationEnded
    /\ idx = Len(CAMERAS)
    /\ Called("capture")
    /\ ~GotFrame
    /\ snapshot[name] # NoFile

\* what lines 74-80 draw for the qualifying detections of res
DrawnFor(res) ==
    {[xyxy |-> res[ij[1]][ij[2]].xyxy, text |-> <<"Cash", res[ij[1]][ij[2]].conf>>] :
        ij \in QualifyingIn(res, CONF_THRES)}

\* C19: detect_cash draws onto the frame a box with its label for exactly the
\* qualifying detections, all of them when there are several and none when
\* there is none, and leaves the image as it is otherwise; a successful write
\* stores this frame as the snapshot, and no later step of the iteration,
\* notification or not, changes the frame or the file.
C19_AnnotationSet ==
    [][/\ pc = "boxes"
          => frame' = [img |-> frame.img, drawn |-> frame.drawn \cup DrawnFor(results)]
       /\ (pc = "imwrite" /\ wrote') => snapshot'[name] = frame
       /\ pc \in {"decide", "send_email", "record"}
          => UNCHANGED <<frame, snapshot>>]_vars

\* two boxes drawn and stored in an iteration that sends no notification
C19_Witness ==
    /\ pc = "for"
    /\ wrote
    /\ Cardinality(frame.drawn) = 2
    /\ snapshot[name] = frame
    /\ cash_detected
    /\ ~Attempted

====
